---- MODULE Spec2Model ----
(***************************************************************************)
(* A model of neurokit2.signal.signal_interpolate and                      *)
(* neurokit2.signal.signal_rate.                                           *)
(*                                                                         *)
(* One call of either function is followed statement by statement: pc is   *)
(* the position in the function body, result is what the caller receives   *)
(* (a returned array or a raised error).  Arrays are sequences.  Sample    *)
(* positions are exact rationals [num, den]; sample values are records     *)
(* [sym, num, den, inv]: sym = "" is the exact rational num/den, sym =     *)
(* "inf"/"nan" the IEEE values, and any other sym is the value of the      *)
(* named kernel's polynomial at position num/den, which the model keeps    *)
(* as a term instead of computing it; inv marks 60 divided by that term.   *)
(***************************************************************************)
EXTENDS Integers, Sequences, FiniteSets, TLC

\* ------------------------------------------------------------ bounds
\* longest x_values / y_values / peaks array
MaxLen == 3
\* sample values are 0..MaxY
MaxY == 1
\* largest integer count passed as x_new or desired_length
MaxCount == 4
\* longest explicit x_new sequence
MaxNew == 2
\* sampling rates are 1..MaxRate
MaxRate == 2
\* longest peaks array; peak positions are 0..MaxPeaks-1
MaxPeaks == 4

\* signal_rate.py line 53: rate = 60 / period
RateFactor == 60

Positions == 0 .. (MaxLen - 1)
Targets == -1 .. MaxLen
YVals == 0 .. MaxY
PeakPositions == 0 .. (MaxPeaks - 1)

\* ------------------------------------------------------------ numbers
Abs(n) == IF n < 0 THEN -n ELSE n

RECURSIVE Gcd(_, _)
Gcd(a, b) == IF b = 0 THEN a ELSE Gcd(b, a % b)

\* the rational n/d (d # 0) in lowest terms with a positive denominator
Norm(n, d) ==
    LET s == IF d < 0 THEN -1 ELSE 1
        g == Gcd(Abs(n), Abs(d))
    IN  [num |-> (s * n) \div g, den |-> (s * d) \div g]

Pos(n) == [num |-> n, den |-> 1]

PosLess(p, q) == p.num * q.den < q.num * p.den

Exact(n, d) ==
    LET r == Norm(n, d)
    IN  [sym |-> "", inv |-> FALSE, num |-> r.num, den |-> r.den]
Num(n) == Exact(n, 1)
Term(name, p) == [sym |-> name, inv |-> FALSE, num |-> p.num, den |-> p.den]
NaN == [sym |-> "nan", inv |-> FALSE, num |-> 0, den |-> 0]
Inf == [sym |-> "inf", inv |-> FALSE, num |-> 1, den |-> 0]
IsExact(v) == v.sym = ""

\* an integer array as an array of values
Arr(s) == [i \in DOMAIN s |-> Num(s[i])]

\* ------------------------------------------------------------ methods
\* the method argument: a string, or an integer spline order
MethodStr(n) == [isStr |-> TRUE, name |-> n, order |-> -1]
MethodInt(k) == [isStr |-> FALSE, name |-> "", order |-> k]

\* docstring lines 24-30 (names) and line 47 (the integer order 5)
\* and one spelling that only method.lower() of line 72 recognises
Methods ==
    { MethodStr(n) : n \in {"linear", "nearest", "zero", "slinear", "quadratic",
                            "cubic", "previous", "next", "monotone_cubic",
                            "Monotone_Cubic"} }
    \cup { MethodInt(5) }

\* str.lower() on the method names
Lower(n) == IF n = "Monotone_Cubic" THEN "monotone_cubic" ELSE n

\* line 72: isinstance(method, str) and method.lower() == "monotone_cubic"
IsMonotoneCubic(m) == m.isStr /\ Lower(m.name) = "monotone_cubic"

\* interp1d: the spline order a kind stands for, -1 for the other kinds
SplineOrder(m) ==
    IF ~m.isStr THEN m.order
    ELSE CASE m.name = "zero" -> 0
           [] m.name = "slinear" -> 1
           [] m.name = "quadratic" -> 2
           [] m.name = "cubic" -> 3
           [] OTHER -> -1

KindName(m) == IF m.isStr THEN m.name ELSE "spline"

\* ------------------------------------------------------------ x_new
XNone == [tag |-> "none", n |-> 0, s |-> << >>]
XInt(k) == [tag |-> "int", n |-> k, s |-> << >>]
XSeq(q) == [tag |-> "seq", n |-> 0, s |-> q]

SeqsUpTo(S, k) == UNION { [1 .. n -> S] : n \in 0 .. k }

IsInjective(s) == \A i, j \in DOMAIN s : s[i] = s[j] => i = j

SeqMin(s) == CHOOSE v \in { s[i] : i \in DOMAIN s } : \A i \in DOMAIN s : v <= s[i]
SeqMax(s) == CHOOSE v \in { s[i] : i \in DOMAIN s } : \A i \in DOMAIN s : v >= s[i]

StrictlyIncreasing(s) == \A i \in DOMAIN s : i > 1 => s[i - 1] < s[i]


\* ------------------------------------------------------------ results
NoResult == [kind |-> "none", value |-> << >>, error |-> ""]
Return(v) == [kind |-> "return", value |-> v, error |-> ""]
Raise(e) == [kind |-> "raise", value |-> << >>, error |-> e]

\* ------------------------------------------------------------ signal_interpolate, its parts
\* a changed LengthsDiffer: only a longer x_values is refused
LengthsDifferOneWay(x, y) == Len(x) > Len(y)

\* line 61: len(x_values) != len(y_values)
LengthsDiffer(x, y) == Len(x) # Len(y)

\* a changed CountTest: a sequence short-circuits only when it equals x_values
CountTestByPosition(x, xn) ==
    CASE xn.tag = "int" -> IF Len(x) = xn.n THEN "equal" ELSE "differs"
      [] xn.tag = "seq" -> IF x = xn.s THEN "equal" ELSE "differs"
      [] OTHER -> "TypeError"

\* a changed CountTest: None is taken as a count that differs
CountTestNoneDiffers(x, xn) ==
    CASE xn.tag = "int" -> IF Len(x) = xn.n THEN "equal" ELSE "differs"
      [] xn.tag = "seq" -> IF Len(x) = Len(xn.s) THEN "equal" ELSE "differs"
      [] OTHER -> "differs"

\* lines 64-69: the two comparisons of the short circuit; len(None) is a TypeError
CountTest(x, xn) ==
    CASE xn.tag = "int" -> IF Len(x) = xn.n THEN "equal" ELSE "differs"
      [] xn.tag = "seq" -> IF Len(x) = Len(xn.s) THEN "equal" ELSE "differs"
      [] OTHER -> "TypeError"

\* line 73: PchipInterpolator(x_values, y_values, extrapolate=True) refuses fewer
\* than two points and positions that are not strictly increasing
PchipError(x, y) ==
    IF Len(x) < 2 \/ ~StrictlyIncreasing(x)
    THEN "InterpolationConstructionError" ELSE ""

\* a changed Interp1dError: a spline of order k is accepted on k points
Interp1dErrorOffByOne(x, y, m) ==
    IF Len(y) = 0 THEN "IndexError"
    ELSE IF SplineOrder(m) >= 0 /\ Len(x) < SplineOrder(m)
         THEN "InterpolationConstructionError"
         ELSE ""

\* lines 75-77: the arguments are evaluated first, and y_values[0] of an empty
\* array is an IndexError; then interp1d refuses a spline of order k on fewer
\* than k + 1 points
Interp1dError(x, y, m) ==
    IF Len(y) = 0 THEN "IndexError"
    ELSE IF SplineOrder(m) >= 0 /\ Len(x) < SplineOrder(m) + 1
         THEN "InterpolationConstructionError"
         ELSE ""

\* a changed FillBelow: the two fill values swapped
FillBelowSwapped(y) == y[Len(y)]

\* line 76: fill_value=([y_values[0]], [y_values[-1]])
FillBelow(y) == y[1]
FillAbove(y) == y[Len(y)]

\* the segment value of a linear kernel between (xa, ya) and (xb, yb)
Lerp(xa, ya, xb, yb, t) ==
    IF IsExact(ya) /\ IsExact(yb)
    THEN Exact(ya.num * yb.den * t.den * (xb - xa)
                 + (yb.num * ya.den - ya.num * yb.den) * (t.num - xa * t.den),
               ya.den * yb.den * t.den * (xb - xa))
    ELSE Term("linear", t)

\* interp1d between two neighbouring samples, by kind
Between(m, xa, ya, xb, yb, t) ==
    CASE KindName(m) = "linear" \/ SplineOrder(m) = 1 -> Lerp(xa, ya, xb, yb, t)
      [] KindName(m) = "nearest" ->
            IF 2 * t.num <= (xa + xb) * t.den THEN ya ELSE yb
      [] KindName(m) = "previous" \/ SplineOrder(m) = 0 -> ya
      [] KindName(m) = "next" -> yb
      [] OTHER -> Term(KindName(m), t)

\* the interpolant inside [min(x), max(x)]: interp1d sorts the samples by
\* position; every kernel passes through its samples
KernelAt(m, x, y, t) ==
    LET knots == { i \in DOMAIN x : Pos(x[i]) = t }
    IN  IF knots # {} THEN y[CHOOSE i \in knots : TRUE]
        ELSE LET lo == CHOOSE i \in DOMAIN x :
                           /\ PosLess(Pos(x[i]), t)
                           /\ \A j \in DOMAIN x : PosLess(Pos(x[j]), t) => x[j] <= x[i]
                 hi == CHOOSE i \in DOMAIN x :
                           /\ PosLess(t, Pos(x[i]))
                           /\ \A j \in DOMAIN x : PosLess(t, Pos(x[j])) => x[j] >= x[i]
             IN  IF IsMonotoneCubic(m) THEN Term("monotone_cubic", t)
                 ELSE Between(m, x[lo], y[lo], x[hi], y[hi], t)

\* interp1d(..., bounds_error=False, fill_value=(below, above)) at one position
Interp1dAt(m, x, y, t) ==
    IF PosLess(t, Pos(SeqMin(x))) THEN FillBelow(y)
    ELSE IF PosLess(Pos(SeqMax(x)), t) THEN FillAbove(y)
    ELSE KernelAt(m, x, y, t)

\* PchipInterpolator(..., extrapolate=True) at one position: outside the samples
\* the end polynomial continues
PchipAt(m, x, y, t) ==
    IF PosLess(t, Pos(SeqMin(x))) \/ PosLess(Pos(SeqMax(x)), t)
    THEN Term("monotone_cubic", t)
    ELSE KernelAt(m, x, y, t)

\* a changed Interpolated: the values come out in reverse order
InterpolatedReversed(m, x, y, g) ==
    [i \in DOMAIN g |-> IF IsMonotoneCubic(m) THEN PchipAt(m, x, y, g[Len(g) + 1 - i])
                        ELSE Interp1dAt(m, x, y, g[Len(g) + 1 - i])]

\* line 82: interpolation_function(x_new)
Interpolated(m, x, y, g) ==
    [i \in DOMAIN g |-> IF IsMonotoneCubic(m) THEN PchipAt(m, x, y, g[i])
                        ELSE Interp1dAt(m, x, y, g[i])]

\* a changed Linspace: np.linspace(a, b, n, endpoint=False)
LinspaceNoEndpoint(a, b, n) ==
    [i \in 1 .. n |-> Norm(a * n + (i - 1) * (b - a), n)]

\* np.linspace(a, b, n): n = 1 gives [a]
Linspace(a, b, n) ==
    [i \in 1 .. n |-> IF n = 1 THEN Pos(a)
                      ELSE Norm(a * (n - 1) + (i - 1) * (b - a), n - 1)]

\* lines 79-80: an integer x_new becomes the grid, a sequence is used as it is
ResolvedGrid(x, xn) ==
    IF xn.tag = "int" THEN Linspace(x[1], x[Len(x)], xn.n)
    ELSE [i \in DOMAIN xn.s |-> Pos(xn.s[i])]

\* line 72-77: what building the interpolation function raises, "" when it is built
CreateError(x, y, m) ==
    IF IsMonotoneCubic(m) THEN PchipError(x, y) ELSE Interp1dError(x, y, m)

\* signal_interpolate as a function of its arguments (y an array of values)
SignalInterpolateResult(x, y, xn, m) ==
    IF LengthsDiffer(x, y) THEN Raise("LengthMismatchError")
    ELSE IF CountTest(x, xn) = "TypeError" THEN Raise("TypeError")
    ELSE IF CountTest(x, xn) = "equal" THEN Return(y)
    ELSE IF CreateError(x, y, m) # "" THEN Raise(CreateError(x, y, m))
    ELSE Return(Interpolated(m, x, y, ResolvedGrid(x, xn)))

\* ------------------------------------------------------------ signal_rate, its parts
\* desired_length: None, or an integer
DLNone == [set |-> FALSE, n |-> 0]
DLInt(k) == [set |-> TRUE, n |-> k]

\* line 52: the positional arguments of the call of signal_period
ForwardedArgs(p, sr, dl, m) ==
    [peaks |-> p, sampling_rate |-> sr, desired_length |-> dl, interpolation_method |-> m]

\* a changed Div60: 60 * period
Div60Times(v) ==
    CASE v.sym = "" -> Exact(RateFactor * v.num, v.den)
      [] v.sym = "nan" -> NaN
      [] v.sym = "inf" -> Inf
      [] OTHER -> [v EXCEPT !.inv = TRUE]

\* a changed Div60: a period that is not positive gives NaN
Div60Clamped(v) ==
    CASE v.sym = "" -> IF v.num <= 0 THEN NaN ELSE Exact(RateFactor * v.den, v.num)
      [] v.sym = "nan" -> NaN
      [] v.sym = "inf" -> Num(0)
      [] OTHER -> [v EXCEPT !.inv = TRUE]

\* line 53: 60 / period on one element, with numpy's division (60 / 0.0 is inf)
Div60(v) ==
    CASE v.sym = "" -> IF v.num = 0 THEN Inf ELSE Exact(RateFactor * v.den, v.num)
      [] v.sym = "nan" -> NaN
      [] v.sym = "inf" -> Num(0)
      [] OTHER -> [v EXCEPT !.inv = TRUE]

\* a changed RateOf: one rate per interval, the first period left out
RateOfIntervals(per) ==
    [i \in 1 .. (IF Len(per) = 0 THEN 0 ELSE Len(per) - 1) |-> 
        IF per[i + 1].sym = "" /\ per[i + 1].num # 0
        THEN Exact(RateFactor * per[i + 1].den, per[i + 1].num) ELSE NaN]

\* line 53: rate = 60 / period, elementwise
RateOf(per) == [i \in DOMAIN per |-> Div60(per[i])]

\* np.arange(k)
Arange(k) == [i \in 1 .. k |-> i - 1]

\* The Period-Provider (signal_period, not among the sources), from the
\* specification, sections 4.2 and 6: one period per peak, the difference of
\* consecutive peaks divided by the sampling rate; the specification does not say
\* what the first element holds, so it is the argument pad.  When desired_length
\* is set and differs from the peak count the periods are resampled by the
\* Interpolator onto desired_length points.
SignalPeriod(p, sr, dl, m, pad) ==
    LET n == Len(p)
        per == [i \in 1 .. n |-> IF i = 1 THEN pad ELSE Exact(p[i] - p[i - 1], sr)]
    IN  IF ~dl.set \/ dl.n = n THEN Return(per)
        ELSE SignalInterpolateResult(p, per, XSeq(Arange(dl.n)), m)

\* what the first period may hold: one of the computed periods (NaN when there is none)
PadChoices(p, sr) ==
    IF Len(p) >= 2 THEN { Exact(p[i] - p[i - 1], sr) : i \in 2 .. Len(p) } ELSE {NaN}

\* ------------------------------------------------------------ state
VARIABLES fn, pc, x_values, y_values, x_new, method, kernel, grid, result,
          peaks, sampling_rate, desired_length, interpolation_method, forwarded, period

vars == << fn, pc, x_values, y_values, x_new, method, kernel, grid, result,
           peaks, sampling_rate, desired_length, interpolation_method, forwarded, period >>

interpVars == << x_values, y_values, x_new, method, kernel, grid >>
rateArgs == << peaks, sampling_rate, desired_length, interpolation_method >>
rateVars == << peaks, sampling_rate, desired_length, interpolation_method, forwarded, period >>

NoArgs == ForwardedArgs(<< >>, 0, DLNone, MethodStr(""))

\* x_values: distinct positions, in increasing or in decreasing order
XValues ==
    { s \in SeqsUpTo(Positions, MaxLen) :
        StrictlyIncreasing(s) \/ StrictlyIncreasing([i \in DOMAIN s |-> -s[i]]) }

\* y_values of the same length with every content, and of every other length
YValuesFor(x) ==
    [1 .. Len(x) -> YVals]
    \cup { [i \in 1 .. n |-> 0] : n \in (0 .. MaxLen) \ {Len(x)} }

XNews ==
    {XNone} \cup { XInt(k) : k \in 0 .. MaxCount }
            \cup { XSeq(q) : q \in SeqsUpTo(Targets, MaxNew) }

DesiredLengths == {DLNone} \cup { DLInt(k) : k \in 0 .. MaxCount }

\* interpolation_method of signal_rate: the default and two kinds of interp1d
RateMethods == { MethodStr(n) : n \in {"monotone_cubic", "linear", "quadratic"} }

\* a call signal_interpolate(x_values, y_values, x_new, method)
InitInterpolate ==
    /\ fn = "signal_interpolate"
    /\ pc = "sanity"
    /\ x_values \in XValues
    /\ y_values \in YValuesFor(x_values)
    /\ x_new \in XNews
    /\ method \in Methods
    /\ kernel = "none"
    /\ grid = << >>
    /\ result = NoResult
    /\ peaks = << >> /\ sampling_rate = 0 /\ desired_length = DLNone
    /\ interpolation_method = MethodStr("")
    /\ forwarded = NoArgs
    /\ period = << >>

\* a call signal_rate(peaks, sampling_rate, desired_length, interpolation_method);
\* peaks that repeat a position are resampled by no kernel of the model, so they
\* come with desired_length unset or equal to their count
InitRate ==
    /\ fn = "signal_rate"
    /\ pc = "period"
    /\ peaks \in SeqsUpTo(PeakPositions, MaxPeaks)
    /\ sampling_rate \in 1 .. MaxRate
    /\ desired_length \in DesiredLengths
    /\ (desired_length.set /\ desired_length.n # Len(peaks)) => IsInjective(peaks)
    /\ interpolation_method \in RateMethods
    /\ forwarded = NoArgs
    /\ period = << >>
    /\ result = NoResult
    /\ x_values = << >> /\ y_values = << >> /\ x_new = XNone
    /\ method = MethodStr("")
    /\ kernel = "none"
    /\ grid = << >>

Init == InitInterpolate \/ InitRate

\* lines 60-62
SanityCheck ==
    /\ fn = "signal_interpolate" /\ pc = "sanity"
    /\ IF LengthsDiffer(x_values, y_values)
       THEN /\ result' = Raise("LengthMismatchError")
            /\ pc' = "done"
       ELSE /\ pc' = "shortcircuit"
            /\ UNCHANGED result
    /\ UNCHANGED << fn, interpVars, rateVars >>

\* lines 64-69
ShortCircuit ==
    /\ fn = "signal_interpolate" /\ pc = "shortcircuit"
    /\ CASE CountTest(x_values, x_new) = "TypeError" ->
              result' = Raise("TypeError") /\ pc' = "done"
         [] CountTest(x_values, x_new) = "equal" ->
              result' = Return(Arr(y_values)) /\ pc' = "done"
         [] OTHER -> pc' = "create" /\ UNCHANGED result
    /\ UNCHANGED << fn, interpVars, rateVars >>

\* lines 71-77
CreateInterpolationFunction ==
    /\ fn = "signal_interpolate" /\ pc = "create"
    /\ IF CreateError(x_values, Arr(y_values), method) # ""
       THEN /\ result' = Raise(CreateError(x_values, Arr(y_values), method))
            /\ pc' = "done"
            /\ UNCHANGED kernel
       ELSE /\ kernel' = IF IsMonotoneCubic(method) THEN "pchip" ELSE "interp1d"
            /\ pc' = "resolve"
            /\ UNCHANGED result
    /\ UNCHANGED << fn, x_values, y_values, x_new, method, grid, rateVars >>

\* lines 79-80
ResolveGrid ==
    /\ fn = "signal_interpolate" /\ pc = "resolve"
    /\ grid' = ResolvedGrid(x_values, x_new)
    /\ pc' = "evaluate"
    /\ UNCHANGED << fn, x_values, y_values, x_new, method, kernel, result, rateVars >>

\* lines 82-84
Evaluate ==
    /\ fn = "signal_interpolate" /\ pc = "evaluate"
    /\ result' = Return(Interpolated(method, x_values, Arr(y_values), grid))
    /\ pc' = "done"
    /\ UNCHANGED << fn, interpVars, rateVars >>

\* signal_rate line 52: the call of the Period-Provider; what it raises propagates
ObtainPeriod ==
    /\ fn = "signal_rate" /\ pc = "period"
    /\ forwarded' = ForwardedArgs(peaks, sampling_rate, desired_length, interpolation_method)
    /\ \E pad \in PadChoices(forwarded'.peaks, forwarded'.sampling_rate) :
         LET got == SignalPeriod(forwarded'.peaks, forwarded'.sampling_rate,
                                 forwarded'.desired_length,
                                 forwarded'.interpolation_method, pad)
         IN  IF got.kind = "raise"
             THEN result' = got /\ pc' = "done" /\ UNCHANGED period
             ELSE period' = got.value /\ pc' = "convert" /\ UNCHANGED result
    /\ UNCHANGED << fn, interpVars, rateArgs >>

\* signal_rate lines 53-55
ConvertToRate ==
    /\ fn = "signal_rate" /\ pc = "convert"
    /\ result' = Return(RateOf(period))
    /\ pc' = "done"
    /\ UNCHANGED << fn, interpVars, rateVars >>

Next ==
    \/ SanityCheck
    \/ ShortCircuit
    \/ CreateInterpolationFunction
    \/ ResolveGrid
    \/ Evaluate
    \/ ObtainPeriod
    \/ ConvertToRate

Spec == Init /\ [][Next]_vars

\* ------------------------------------------------------------ properties
\* used by the properties below: a value and a position written out
V(n) == [sym |-> "", inv |-> FALSE, num |-> n, den |-> 1]
P(n) == [num |-> n, den |-> 1]
Count == IF x_new.tag = "int" THEN x_new.n ELSE Len(x_new.s)
CountEqualsLength ==
    \/ x_new.tag = "int" /\ x_new.n = Len(x_values)
    \/ x_new.tag = "seq" /\ Len(x_new.s) = Len(x_values)
Finite(v) == v.sym = ""
MonotoneCubicAsked == method.name \in {"monotone_cubic", "Monotone_Cubic"}
SixtyOver(r, q) == Finite(r) /\ r.num * q.num = 60 * r.den * q.den
EvenlySpacedPeaks ==
    /\ Len(peaks) >= 2
    /\ \A i \in 2 .. Len(peaks) : peaks[i] - peaks[i - 1] = sampling_rate

\* C1: a call of signal_interpolate with len(x_values) # len(y_values) raises the
\* length-mismatch error whatever x_new and method are, and nothing else has
\* happened before: the short circuit is never tested, no kernel is built and
\* no grid is resolved.
C1_LengthMismatchRaisesFirst ==
    (fn = "signal_interpolate" /\ Len(x_values) # Len(y_values)) =>
        /\ pc \in {"sanity", "done"}
        /\ kernel = "none" /\ grid = << >>
        /\ pc = "sanity" => result.kind = "none"
        /\ pc = "done" =>
             result = [kind |-> "raise", value |-> << >>, error |-> "LengthMismatchError"]

\* the mismatch is raised although the target count equals len(x_values)
C1_Witness ==
    /\ fn = "signal_interpolate" /\ pc = "done"
    /\ Len(x_values) = 2 /\ Len(y_values) = 3
    /\ x_new.tag = "int" /\ x_new.n = 2
    /\ method.name = "monotone_cubic"
    /\ result.error = "LengthMismatchError"

\* C2: with equal-length inputs and a target count equal to len(x_values) the
\* call returns y_values unchanged, for every method, whatever the positions in
\* x_new are, and without building a kernel.
C2_EqualCountReturnsYValues ==
    (fn = "signal_interpolate" /\ pc = "done" /\ Len(x_values) = Len(y_values)
       /\ CountEqualsLength) =>
        /\ result.kind = "return"
        /\ Len(result.value) = Len(y_values)
        /\ \A i \in DOMAIN y_values : result.value[i] = V(y_values[i])
        /\ kernel = "none"

\* y_values came back although every target position lies outside x_values
C2_Witness ==
    /\ fn = "signal_interpolate" /\ pc = "done"
    /\ x_values = << 0, 1 >> /\ y_values = << 0, 1 >>
    /\ x_new.tag = "seq" /\ x_new.s = << -1, -1 >>
    /\ method.name = "linear"
    /\ result.kind = "return" /\ result.value = << V(0), V(1) >>

\* C3 as stated: for every explicit target sequence and every method but
\* monotone-cubic, a target below min(x_values) gets y_values[0] and a target
\* above max(x_values) gets y_values[-1].
C3_FlatExtrapolationEverySequence ==
    (fn = "signal_interpolate" /\ pc = "done" /\ result.kind = "return"
       /\ x_new.tag = "seq" /\ ~MonotoneCubicAsked /\ Len(x_values) > 0) =>
        \A i \in DOMAIN x_new.s :
            /\ x_new.s[i] < SeqMin(x_values) => result.value[i] = V(y_values[1])
            /\ x_new.s[i] > SeqMax(x_values) => result.value[i] = V(y_values[Len(y_values)])

\* C3 amended: the same for every explicit target sequence whose length differs
\* from len(x_values); with equal lengths the call returns y_values unchanged.
C3_FlatExtrapolation ==
    (fn = "signal_interpolate" /\ pc = "done" /\ result.kind = "return"
       /\ x_new.tag = "seq" /\ ~MonotoneCubicAsked /\ Len(x_values) > 0
       /\ Len(x_new.s) # Len(x_values)) =>
        \A i \in DOMAIN x_new.s :
            /\ x_new.s[i] < SeqMin(x_values) => result.value[i] = V(y_values[1])
            /\ x_new.s[i] > SeqMax(x_values) => result.value[i] = V(y_values[Len(y_values)])

\* a quadratic spline on decreasing positions, one target below and one above
C3_Witness ==
    /\ fn = "signal_interpolate" /\ pc = "done" /\ result.kind = "return"
    /\ kernel = "interp1d" /\ method.name = "quadratic"
    /\ x_values = << 2, 1, 0 >> /\ y_values = << 1, 1, 0 >>
    /\ x_new.tag = "seq" /\ x_new.s = << 3, -1 >>
    /\ result.value = << V(0), V(1) >>

\* the grid of an integer count n: n positions, evenly spaced by
\* (x_values[-1] - x_values[0]) / (n - 1), none outside the samples
GridEvenAndInside ==
    /\ Len(grid) = x_new.n
    /\ \A i \in 1 .. (x_new.n - 1) :
          (grid[i + 1].num * grid[i].den - grid[i].num * grid[i + 1].den) * (x_new.n - 1)
            = (x_values[Len(x_values)] - x_values[1]) * grid[i].den * grid[i + 1].den
    /\ \A i \in 1 .. x_new.n :
          /\ grid[i].den > 0
          /\ SeqMin(x_values) * grid[i].den <= grid[i].num
          /\ grid[i].num <= SeqMax(x_values) * grid[i].den
          /\ SeqMin(<< x_values[1], x_values[Len(x_values)] >>) * grid[i].den <= grid[i].num
          /\ grid[i].num <= SeqMax(<< x_values[1], x_values[Len(x_values)] >>) * grid[i].den

GridResolvedFromCount ==
    /\ fn = "signal_interpolate" /\ pc \in {"evaluate", "done"} /\ kernel # "none"
    /\ x_new.tag = "int" /\ x_new.n >= 1

\* C4 as stated: for every integer count n >= 1 the grid is n evenly spaced
\* positions that starts at x_values[0] and ends at x_values[-1].
C4_GridSpansBothEndpoints ==
    GridResolvedFromCount =>
        /\ GridEvenAndInside
        /\ grid[1] = P(x_values[1])
        /\ grid[x_new.n] = P(x_values[Len(x_values)])

\* C4 amended: that holds for every count n >= 2; for n = 1 the grid is the
\* single position x_values[0].  In both cases no position lies outside the samples.
C4_GridOfCount ==
    GridResolvedFromCount =>
        /\ GridEvenAndInside
        /\ grid[1] = P(x_values[1])
        /\ x_new.n >= 2 => grid[x_new.n] = P(x_values[Len(x_values)])

\* three positions between two samples: 0, 1/2, 1
C4_Witness ==
    /\ fn = "signal_interpolate" /\ pc = "done" /\ result.kind = "return"
    /\ x_values = << 1, 0 >> /\ x_new.tag = "int" /\ x_new.n = 3
    /\ grid = << P(1), [num |-> 1, den |-> 2], P(0) >>

\* value v belongs to grid position g: a kernel term is the one at g, and at a
\* sample position the value is that sample's
ValueIsFor(v, g) ==
    /\ v.sym \notin {"", "nan", "inf"} => (v.num = g.num /\ v.den = g.den)
    /\ \A j \in DOMAIN x_values : g = P(x_values[j]) => v = V(y_values[j])

C6_RateIsSixtyOverPeriod ==
    /\ (fn = "signal_rate" /\ pc \in {"convert", "done"}) =>
          /\ forwarded = [peaks |-> peaks, sampling_rate |-> sampling_rate,
                          desired_length |-> desired_length,
                          interpolation_method |-> interpolation_method]
          /\ result.kind # "raise" =>
               \E pad \in PadChoices(peaks, sampling_rate) :
                   SignalPeriod(peaks, sampling_rate, desired_length,
                                interpolation_method, pad).value = period
    /\ (fn = "signal_rate" /\ pc = "done" /\ result.kind = "return") =>
          /\ Len(result.value) = Len(period)
          /\ \A i \in DOMAIN period :
                (Finite(period[i]) /\ period[i].num # 0) =>
                    SixtyOver(result.value[i], period[i])

\* periods 1/2 s and 1 s become rates 120 and 60
C6_Witness ==
    /\ fn = "signal_rate" /\ pc = "done" /\ result.kind = "return"
    /\ peaks = << 0, 1, 2 >> /\ sampling_rate = 2 /\ ~desired_length.set
    /\ result.value = << V(120), V(120), V(120) >>

\* C7: a zero period gives an infinite rate and a negative period a negative
\* rate 60/period; once the periods are there the call returns, and the other
\* elements are 60/period as usual.
C7_ZeroAndNegativePeriods ==
    (fn = "signal_rate" /\ pc = "done" /\ Len(period) > 0) =>
        /\ result.kind = "return"
        /\ Len(result.value) = Len(period)
        /\ \A i \in DOMAIN period :
              Finite(period[i]) =>
                 /\ period[i].num = 0 =>
                       result.value[i] = [sym |-> "inf", inv |-> FALSE, num |-> 1, den |-> 0]
                 /\ period[i].num < 0 =>
                       (SixtyOver(result.value[i], period[i]) /\ result.value[i].num < 0)
                 /\ period[i].num > 0 =>
                       (SixtyOver(result.value[i], period[i]) /\ result.value[i].num > 0)

\* peaks 2, 2, 0: the periods 0 and -2 give the rates inf and -30
C7_Witness ==
    /\ fn = "signal_rate" /\ pc = "done" /\ result.kind = "return"
    /\ peaks = << 2, 2, 0 >> /\ sampling_rate = 1
    /\ period[2] = V(0) /\ period[3] = V(-2)
    /\ result.value[2].sym = "inf" /\ result.value[3] = V(-30)

\* C8 as stated: with equal-length inputs, a spline order that needs more samples
\* than there are always ends in the construction error.
C8_InvalidOrderAlwaysRaises ==
    (fn = "signal_interpolate" /\ pc = "done" /\ Len(x_values) = Len(y_values)
       /\ SplineOrder(method) >= Len(x_values)) =>
        result = [kind |-> "raise", value |-> << >>,
                  error |-> "InterpolationConstructionError"]

\* C8 amended: it does when the inputs are not empty, x_new is given and its
\* target count differs from len(x_values); no kernel is built and nothing is
\* returned.
C8_InvalidOrderRaises ==
    (fn = "signal_interpolate" /\ pc = "done" /\ Len(x_values) = Len(y_values)
       /\ SplineOrder(method) >= Len(x_values)
       /\ Len(x_values) > 0 /\ x_new.tag # "none" /\ ~CountEqualsLength) =>
        /\ result = [kind |-> "raise", value |-> << >>,
                     error |-> "InterpolationConstructionError"]
        /\ kernel = "none" /\ grid = << >>

\* a quadratic spline on two samples
C8_Witness ==
    /\ fn = "signal_interpolate" /\ pc = "done"
    /\ Len(x_values) = 2 /\ Len(y_values) = 2
    /\ method.name = "quadratic" /\ x_new.tag = "int" /\ x_new.n = 3
    /\ result.error = "InterpolationConstructionError"

C10_DefaultXNewRaises ==
    (fn = "signal_interpolate" /\ Len(x_values) = Len(y_values) /\ x_new.tag = "none") =>
        /\ pc \in {"sanity", "shortcircuit", "done"}
        /\ kernel = "none" /\ grid = << >>
        /\ pc # "done" => result.kind = "none"
        /\ pc = "done" => result = [kind |-> "raise", value |-> << >>, error |-> "TypeError"]

\* the default x_new with three samples and the monotone-cubic method
C10_Witness ==
    /\ fn = "signal_interpolate" /\ pc = "done"
    /\ Len(x_values) = 3 /\ Len(y_values) = 3 /\ x_new.tag = "none"
    /\ method.name = "monotone_cubic"
    /\ result.kind = "raise" /\ result.error = "TypeError"

====
